---------------------------- MODULE Spec2Model ----------------------------
(***************************************************************************)
(* Model of wm_mecanum_cmd_node.py: the MecanumCmd node that turns a       *)
(* geometry_msgs/Twist received on cmd_vel into four roboteq Command        *)
(* messages, one per mecanum wheel (FLW, FRW, RLW, RRW).                    *)
(*                                                                         *)
(* Numbers.  A Python float is modelled by an exact rational <<n, d>>       *)
(* (d > 0, gcd(n, d) = 1); IEEE rounding is not modelled.  Inputs are drawn *)
(* from velocity vectors whose norm is rational, so that sqrt, atan2, cos   *)
(* and sin have exact values.  An angle is represented by its point on the  *)
(* unit circle, <<cos, sin>>, which is one-to-one on atan2's range.         *)
(* The one effect of the float's finite range that the code exposes is      *)
(* modelled: x**2 raises OverflowError when |x| > sqrt(DBL_MAX); such a     *)
(* finite input is the token HugePos or HugeNeg.                           *)
(*                                                                         *)
(* Threads.  rospy invokes a subscriber callback on the receive thread of   *)
(* the publisher connection the message came in on; the callback takes no   *)
(* lock.  Each connection therefore runs its callbacks one after another,   *)
(* and callbacks of different connections interleave between statements     *)
(* that act on shared objects (the four publishers).                        *)
(***************************************************************************)
EXTENDS Integers, Sequences, FiniteSets, TLC

VARIABLES params, node, cfg, inbox, arrived, pc, loc, pub, errors

vars == <<params, node, cfg, inbox, arrived, pc, loc, pub, errors>>

---------------------------------------------------------------------------
(* Bounds of the model *)

\* commands received on cmd_vel in one run of the node
MaxCmds == 2

\* largest |linear.x|, |linear.y| of the input grid, in tenths of m/s
MaxVel == 20

---------------------------------------------------------------------------
(* Float arithmetic, as exact rationals *)

Abs(i) == IF i < 0 THEN -i ELSE i

RECURSIVE GCD(_, _)
GCD(a, b) == IF b = 0 THEN a ELSE GCD(b, a % b)

Rat(n, d) ==
    LET s == IF d < 0 THEN -1 ELSE 1
        g == GCD(Abs(n), Abs(d))
    IN  <<(s * n) \div g, (s * d) \div g>>

Zero == Rat(0, 1)

One == Rat(1, 1)

RAdd(a, b) == Rat(a[1] * b[2] + b[1] * a[2], a[2] * b[2])

RNeg(a) == <<-a[1], a[2]>>

RMul(a, b) == Rat(a[1] * b[1], a[2] * b[2])

\* the divisor is non-zero wherever the model divides
RDiv(a, b) == Rat(a[1] * b[2], a[2] * b[1])

RLt(a, b) == a[1] * b[2] < b[1] * a[2]

RLe(a, b) == a[1] * b[2] <= b[1] * a[2]

RAbs(a) == <<Abs(a[1]), a[2]>>

RSign(a) == IF a[1] > 0 THEN 1 ELSE IF a[1] < 0 THEN -1 ELSE 0

\* math.pi, to the precision the model's integers allow
Pi == Rat(355, 113)

\* a finite float x with x > sqrt(DBL_MAX), e.g. 1e200, and its negative
\* (a token of the shape of a rational, with denominator 0)
HugePos == <<1, 0>>

HugeNeg == <<-1, 0>>

IsHuge(x) == x \in {HugePos, HugeNeg}

\* x**2 for a float that is not huge
Pow2(x) == RMul(x, x)

RECURSIVE ISqrtFrom(_, _)
ISqrtFrom(n, r) == IF (r + 1) * (r + 1) > n THEN r ELSE ISqrtFrom(n, r + 1)

\* math.sqrt: exact on the squares of rationals, which are the only
\* arguments the inputs of the model produce
Sqrt(q) == Rat(ISqrtFrom(q[1], 0), ISqrtFrom(q[2], 0))

\* math.atan2(y, x): the angle of (x, y), as its point on the unit circle;
\* atan2(0, 0) is the angle 0
Atan2(y, x) ==
    LET r == Sqrt(RAdd(Pow2(x), Pow2(y)))
    IN  IF r = Zero THEN <<One, Zero>> ELSE <<RDiv(x, r), RDiv(y, r)>>

Cos(h) == h[1]

Sin(h) == h[2]

\* mutant: the alternation of line 104 dropped
MinusOnePowConst(k) == 1

\* (-1)**k
MinusOnePow(k) == IF k % 2 = 0 THEN 1 ELSE -1

---------------------------------------------------------------------------
(* The parameter server and the Twist inputs *)

Connections == {1, 2}

Channels == <<"FLW", "FRW", "RLW", "RRW">>

\* the defaults of __init__
DefaultParams ==
    [alpha |-> Rat(31, 100), beta |-> Rat(30, 100), wheel_radius |-> Rat(75, 1000),
     max_linear_vel |-> Rat(1, 1), angular_vel_div |-> Rat(6, 1),
     gearbox_ratio |-> Rat(15, 1)]

\* what rospy.get_param may return: the defaults, another valid geometry,
\* and values no line of __init__ excludes
ParamSets ==
    { DefaultParams,
      [alpha |-> Rat(1, 4), beta |-> Rat(1, 5), wheel_radius |-> Rat(1, 10),
       max_linear_vel |-> Rat(3, 2), angular_vel_div |-> Rat(4, 1),
       gearbox_ratio |-> Rat(10, 1)],
      [DefaultParams EXCEPT !.wheel_radius = Zero],
      [DefaultParams EXCEPT !.wheel_radius = Rat(-75, 1000)],
      [DefaultParams EXCEPT !.angular_vel_div = Zero] }

NoCfg == [alpha |-> Zero, beta |-> Zero, radius |-> Zero, gb_ratio |-> Zero,
          maxLinearVelocity |-> Zero, maxAngularVelocity |-> Zero]

\* lines 24-34: the fields __init__ sets from the parameters (the divisor
\* is non-zero here)
ConfigOf(p) ==
    [alpha |-> p.alpha,
     beta |-> p.beta,
     radius |-> p.wheel_radius,
     maxLinearVelocity |-> p.max_linear_vel,
     maxAngularVelocity |-> RDiv(Pi, p.angular_vel_div),
     gb_ratio |-> p.gearbox_ratio]

Twist(lx, ly, az) == [lx |-> lx, ly |-> ly, az |-> az]

\* tenths of m/s whose vector has a rational norm
IsSquare(n) == ISqrtFrom(n, 0) * ISqrtFrom(n, 0) = n

GridVectors ==
    { v \in (-MaxVel .. MaxVel) \X (-MaxVel .. MaxVel) : IsSquare(v[1] * v[1] + v[2] * v[2]) }

YawRates == { Zero, Rat(1, 2), Rat(-1, 2), Rat(1, 1), Rat(-3, 1), HugePos }

ConvertTwists ==
    { Twist(Rat(v[1], 10), Rat(v[2], 10), z) : v \in GridVectors, z \in YawRates }
      \cup { Twist(HugeNeg, Zero, Zero), Twist(Zero, HugePos, Zero) }

NodeTwists ==
    { Twist(Zero, Zero, Zero),
      Twist(One, Zero, Zero),
      Twist(Zero, Zero, One),
      Twist(Rat(3, 1), Rat(-4, 1), Rat(-1, 4)),
      Twist(HugePos, Zero, Zero) }

---------------------------------------------------------------------------
(* MecanumCmd.callback and MecanumCmd.InverseKinematics *)

\* mutant: the comparison of line 53 inverted
LinearClampInverted(vLinear, maxLinearVelocity) ==
    IF RLt(vLinear, maxLinearVelocity) THEN maxLinearVelocity ELSE vLinear

\* lines 53-54
LinearClamp(vLinear, maxLinearVelocity) ==
    IF RLt(maxLinearVelocity, vLinear) THEN maxLinearVelocity ELSE vLinear

\* mutant: cos and sin exchanged
RecomposeSwapped(vLinear, Heading) ==
    <<RMul(vLinear, Sin(Heading)), RMul(vLinear, Cos(Heading))>>

\* lines 60, 62
Recompose(vLinear, Heading) ==
    <<RMul(vLinear, Cos(Heading)), RMul(vLinear, Sin(Heading))>>

\* line 67: the condition of the angular clamp
YawOverLimit(yawVel, maxAngularVelocity) ==
    RLt(Pow2(maxAngularVelocity), Pow2(yawVel))

\* mutant: the clamp loses the sign of the yaw rate
AngularClampNoSign(yawVel, maxAngularVelocity) ==
    IF YawOverLimit(yawVel, maxAngularVelocity) THEN maxAngularVelocity ELSE yawVel

\* lines 67-68
AngularClamp(yawVel, maxAngularVelocity) ==
    IF YawOverLimit(yawVel, maxAngularVelocity)
    THEN RDiv(RMul(maxAngularVelocity, yawVel), RAbs(yawVel))
    ELSE yawVel

\* mutant: the sign of the yaw coefficient of the rear-left row flipped
JRearLeftFlipped(c) ==
    LET ab == RAdd(c.alpha, c.beta)
    IN  [k \in 0 .. 3 |->
           CASE k = 0 -> <<One, RNeg(One), RMul(RNeg(One), ab)>>
             [] k = 1 -> <<One, One, ab>>
             [] k = 2 -> <<One, One, ab>>
             [] k = 3 -> <<One, RNeg(One), ab>>]

\* lines 95-98
J(c) ==
    LET ab == RAdd(c.alpha, c.beta)
    IN  [k \in 0 .. 3 |->
           CASE k = 0 -> <<One, RNeg(One), RMul(RNeg(One), ab)>>
             [] k = 1 -> <<One, One, ab>>
             [] k = 2 -> <<One, One, RMul(RNeg(One), ab)>>
             [] k = 3 -> <<One, RNeg(One), ab>>]

\* line 104, the bracket: J[k][0]*xVel + J[k][1]*yVel + J[k][2]*yawVel
RawDot(c, k, xVel, yVel, yawVel) ==
    RAdd(RAdd(RMul(J(c)[k][1], xVel), RMul(J(c)[k][2], yVel)), RMul(J(c)[k][3], yawVel))

\* mutant: the scaling of the feedback path, ((-1)**k) * (1/radius) * (...)
WheelSpeedFeedback(c, k, xVel, yVel, yawVel) ==
    RMul(RMul(Rat(MinusOnePow(k), 1), RDiv(One, c.radius)),
         RawDot(c, k, xVel, yVel, yawVel))

\* line 104: -gb_ratio / 2.0 * ((-1)**k) * (1/radius) * (...), left to right
WheelSpeed(c, k, xVel, yVel, yawVel) ==
    RMul(RMul(RMul(RDiv(RNeg(c.gb_ratio), Rat(2, 1)), Rat(MinusOnePow(k), 1)),
              RDiv(One, c.radius)),
         RawDot(c, k, xVel, yVel, yawVel))

\* lines 86-106; the radius is non-zero here
InverseKinematics(c, xVel, yVel, yawVel) ==
    [k \in 0 .. 3 |-> WheelSpeed(c, k, xVel, yVel, yawVel)]

\* lines 45-79: the locals of one run of the callback, or the exception
\* that ends it
CallbackLocals(c, id, twist) ==
    IF IsHuge(twist.lx) \/ IsHuge(twist.ly)
    THEN [err |-> "OverflowError", line |-> 51, id |-> id]
    ELSE
      LET norm == Sqrt(RAdd(Pow2(twist.lx), Pow2(twist.ly)))
          vLinear == LinearClamp(norm, c.maxLinearVelocity)
          Heading == Atan2(twist.ly, twist.lx)
          vel == Recompose(vLinear, Heading)
      IN  IF IsHuge(twist.az)
          THEN [err |-> "OverflowError", line |-> 67, id |-> id]
          ELSE IF c.radius = Zero
          THEN [err |-> "ZeroDivisionError", line |-> 104, id |-> id]
          ELSE
            LET yawVel == AngularClamp(twist.az, c.maxAngularVelocity)
            IN  [err |-> "none", id |-> id, twist |-> twist,
                 vLinear |-> vLinear, Heading |-> Heading,
                 xVel |-> vel[1], yVel |-> vel[2],
                 yawVel |-> yawVel,
                 yawBranch |-> YawOverLimit(twist.az, c.maxAngularVelocity),
                 w |-> InverseKinematics(c, vel[1], vel[2], yawVel)]

NoLoc == [err |-> "idle"]

---------------------------------------------------------------------------
(* The node *)

Init ==
    /\ params \in ParamSets
    /\ node = "start"
    /\ cfg = NoCfg
    /\ inbox = [c \in Connections |-> <<>>]
    /\ arrived = <<>>
    /\ pc = [c \in Connections |-> "idle"]
    /\ loc = [c \in Connections |-> NoLoc]
    /\ pub = [ch \in 1 .. 4 |-> <<>>]
    /\ errors = {}

\* lines 20-41 and 112-116.  pi/divisor raises ZeroDivisionError for a zero
\* divisor; nothing else is checked before the subscription is registered.
MecanumCmdInit ==
    /\ node = "start"
    /\ IF params.angular_vel_div = Zero
       THEN /\ node' = "crashed"
            /\ cfg' = cfg
       ELSE /\ node' = "spinning"
            /\ cfg' = ConfigOf(params)
    /\ UNCHANGED <<params, inbox, arrived, pc, loc, pub, errors>>

\* a Twist arrives on connection c of the cmd_vel subscription (line 36)
Receive(c, twist) ==
    /\ node = "spinning"
    /\ Len(arrived) < MaxCmds
    /\ arrived' = Append(arrived, twist)
    /\ inbox' = [inbox EXCEPT ![c] = Append(@, Len(arrived) + 1)]
    /\ UNCHANGED <<params, node, cfg, pc, loc, pub, errors>>

\* mutant: the callback keeps the clamped speed as the new limit
CallbackComputeStoresLimit(c) ==
    /\ pc[c] = "idle"
    /\ inbox[c] # <<>>
    /\ LET id == Head(inbox[c])
           l == CallbackLocals(cfg, id, arrived[id])
       IN  /\ inbox' = [inbox EXCEPT ![c] = Tail(@)]
           /\ IF l.err = "none"
              THEN /\ loc' = [loc EXCEPT ![c] = l]
                   /\ pc' = [pc EXCEPT ![c] = Channels[1]]
                   /\ cfg' = [cfg EXCEPT !.maxLinearVelocity = l.vLinear]
                   /\ errors' = errors
              ELSE /\ errors' = errors \cup {l}
                   /\ UNCHANGED <<loc, pc, cfg>>
    /\ UNCHANGED <<params, node, arrived, pub>>

\* lines 43-79 on the thread of connection c; an exception is caught and
\* logged by rospy, and the message is dropped
CallbackCompute(c) ==
    /\ pc[c] = "idle"
    /\ inbox[c] # <<>>
    /\ LET id == Head(inbox[c])
           l == CallbackLocals(cfg, id, arrived[id])
       IN  /\ inbox' = [inbox EXCEPT ![c] = Tail(@)]
           /\ IF l.err = "none"
              THEN /\ loc' = [loc EXCEPT ![c] = l]
                   /\ pc' = [pc EXCEPT ![c] = Channels[1]]
                   /\ errors' = errors
              ELSE /\ errors' = errors \cup {l}
                   /\ UNCHANGED <<loc, pc>>
    /\ UNCHANGED <<params, node, cfg, arrived, pub>>

\* lines 72-73 and 81 (k = 1), 74-75 and 82, 76-77 and 83, 78-79 and 84
Publish(c, k) ==
    /\ pc[c] = Channels[k]
    /\ pub' = [pub EXCEPT ![k] =
                 Append(@, [id |-> loc[c].id, mode |-> 0, setpoint |-> loc[c].w[k - 1]])]
    /\ IF k < 4
       THEN /\ pc' = [pc EXCEPT ![c] = Channels[k + 1]]
            /\ loc' = loc
       ELSE /\ pc' = [pc EXCEPT ![c] = "idle"]
            /\ loc' = [loc EXCEPT ![c] = NoLoc]
    /\ UNCHANGED <<params, node, cfg, inbox, arrived, errors>>

PublishFLW(c) == Publish(c, 1)

PublishFRW(c) == Publish(c, 2)

PublishRLW(c) == Publish(c, 3)

PublishRRW(c) == Publish(c, 4)

Next ==
    \/ MecanumCmdInit
    \/ \E c \in Connections, t \in NodeTwists : Receive(c, t)
    \/ \E c \in Connections : CallbackCompute(c)
    \/ \E c \in Connections : PublishFLW(c)
    \/ \E c \in Connections : PublishFRW(c)
    \/ \E c \in Connections : PublishRLW(c)
    \/ \E c \in Connections : PublishRRW(c)

Spec == Init /\ [][Next]_vars

\* a single publisher on cmd_vel: the commands arrive on one connection
NextSequential ==
    \/ MecanumCmdInit
    \/ \E t \in NodeTwists : Receive(1, t)
    \/ CallbackCompute(1)
    \/ PublishFLW(1)
    \/ PublishFRW(1)
    \/ PublishRLW(1)
    \/ PublishRRW(1)

SpecSequential == Init /\ [][NextSequential]_vars

\* one command on one connection, over the whole input grid
NextConvert ==
    \/ MecanumCmdInit
    \/ \E t \in ConvertTwists : arrived = <<>> /\ Receive(1, t)
    \/ CallbackCompute(1)
    \/ PublishFLW(1)
    \/ PublishFRW(1)
    \/ PublishRLW(1)
    \/ PublishRRW(1)

SpecConvert == Init /\ [][NextConvert]_vars

---------------------------------------------------------------------------
(* Properties *)

\* the geometry the spec calls valid: radius, alpha, beta and gearbox ratio
\* strictly positive
ParamsValid(p) ==
    /\ RSign(p.alpha) > 0
    /\ RSign(p.beta) > 0
    /\ RSign(p.wheel_radius) > 0
    /\ RSign(p.gearbox_ratio) > 0

\* the thread of connection c is inside the callback, past line 79
Active(c) == pc[c] # "idle"

\* the commands whose callback has returned
Returned ==
    { id \in 1 .. Len(arrived) :
        /\ \A c \in Connections : \A i \in 1 .. Len(inbox[c]) : inbox[c][i] # id
        /\ \A c \in Connections : Active(c) => loc[c].id # id }

Published(k, id) == { i \in 1 .. Len(pub[k]) : pub[k][i].id = id }

Norm(twist) == Sqrt(RAdd(Pow2(twist.lx), Pow2(twist.ly)))

\* C1: with a non-positive wheel radius, alpha, beta or gearbox ratio the
\* construction fails before cmd_vel is subscribed to: the node never spins,
\* no command is received and nothing is published.
C1_StartupValidation ==
    ~ParamsValid(params) =>
        /\ node # "spinning"
        /\ arrived = <<>>
        /\ \A k \in 1 .. 4 : pub[k] = <<>>

\* C2: with valid geometry, every command whose callback has returned raised
\* no error and has exactly one message on each of the four channels, with
\* mode 0 and setpoint w[k] of one inverse-kinematics result.
C2_EveryCommandPublished ==
    ParamsValid(params) =>
        /\ errors = {}
        /\ \A id \in Returned : \A k \in 1 .. 4 :
             /\ Cardinality(Published(k, id)) = 1
             /\ \A i \in Published(k, id) :
                  /\ pub[k][i].mode = 0
                  /\ pub[k][i].setpoint = CallbackLocals(cfg, id, arrived[id]).w[k - 1]

\* C3: the linear speed handed to the transform is min(sqrt(vx^2+vy^2),
\* maxLinearSpeed): never above the limit, unchanged at or below it, exactly
\* the limit above it.
C3_LinearClamp ==
    \A c \in Connections : Active(c) =>
        LET l == loc[c]
            norm == Norm(l.twist)
        IN  /\ RLe(l.vLinear, cfg.maxLinearVelocity)
            /\ RLe(norm, cfg.maxLinearVelocity) => l.vLinear = norm
            /\ RLt(cfg.maxLinearVelocity, norm) => l.vLinear = cfg.maxLinearVelocity

C3_Witness ==
    \E c \in Connections :
        /\ Active(c)
        /\ RLt(cfg.maxLinearVelocity, Norm(loc[c].twist))
        /\ loc[c].vLinear = cfg.maxLinearVelocity

\* C4: the yaw rate handed to the transform is within the limit; it is the
\* input when wz^2 <= max^2 and max with the sign of wz otherwise; for wz = 0
\* the clamp branch is not taken.
C4_AngularClamp ==
    \A c \in Connections : Active(c) =>
        LET l == loc[c]
            wz == l.twist.az
            m == cfg.maxAngularVelocity
        IN  /\ RLe(RAbs(l.yawVel), m)
            /\ RLe(Pow2(wz), Pow2(m)) => (l.yawVel = wz /\ ~l.yawBranch)
            /\ RLt(Pow2(m), Pow2(wz)) =>
                 (l.yawVel = RMul(m, Rat(RSign(wz), 1)) /\ l.yawBranch)
            /\ wz = Zero => ~l.yawBranch

C4_Witness ==
    \E c \in Connections :
        /\ Active(c)
        /\ loc[c].twist.az = Rat(-3, 1)
        /\ loc[c].yawBranch
        /\ loc[c].yawVel = RNeg(cfg.maxAngularVelocity)

PureYaw(l) == l.twist.lx = Zero /\ l.twist.ly = Zero /\ l.twist.az # Zero

\* C5 as claimed: for vx = vy = 0 and wz # 0 the four wheel speeds have equal
\* magnitude, FL = RL, FR = RR, and the left wheels (FL, RL) have the
\* opposite sign to the right wheels (FR, RR).
C5_PureYawOppositeSides ==
    \A c \in Connections : (Active(c) /\ ParamsValid(params) /\ PureYaw(loc[c])) =>
        LET w == loc[c].w
        IN  /\ \A k \in 0 .. 3 : RAbs(w[k]) = RAbs(w[0])
            /\ w[0] = w[2]
            /\ w[1] = w[3]
            /\ RSign(w[0]) = -RSign(w[1])
            /\ RSign(w[0]) # 0

\* C5 as amended: for vx = vy = 0 and wz # 0 the four wheel speeds are equal
\* (FL = FR = RL = RR), non-zero and of the sign of wz: equal magnitude,
\* FL = RL and FR = RR hold, and left and right have the same sign.
C5_PureYawAllEqual ==
    \A c \in Connections : (Active(c) /\ ParamsValid(params) /\ PureYaw(loc[c])) =>
        LET w == loc[c].w
        IN  /\ \A k \in 0 .. 3 : w[k] = w[0]
            /\ RSign(w[0]) = RSign(loc[c].twist.az)

C5_Witness ==
    \E c \in Connections :
        /\ Active(c)
        /\ params = DefaultParams
        /\ loc[c].twist = Twist(Zero, Zero, One)
        /\ loc[c].w[0] = loc[c].w[1]
        /\ RSign(loc[c].w[0]) = 1

\* C6: for vx = 1, vy = 0, wz = 0 and the default geometry the four raw dot
\* products are 1 and the wheel speeds are gearboxRatio/(2*radius) in
\* magnitude, negative for FL and RL, positive for FR and RR.
C6_PureForward ==
    \A c \in Connections :
        (Active(c) /\ params = DefaultParams /\ loc[c].twist = Twist(One, Zero, Zero)) =>
            LET l == loc[c]
                mag == RDiv(params.gearbox_ratio, RMul(Rat(2, 1), params.wheel_radius))
            IN  /\ \A k \in 0 .. 3 : RawDot(cfg, k, l.xVel, l.yVel, l.yawVel) = One
                /\ \A k \in 0 .. 3 : RAbs(l.w[k]) = mag
                /\ l.w[0] = RNeg(mag) /\ l.w[2] = RNeg(mag)
                /\ l.w[1] = mag /\ l.w[3] = mag

C6_Witness ==
    \E c \in Connections :
        /\ Active(c)
        /\ params = DefaultParams
        /\ loc[c].twist = Twist(One, Zero, Zero)
        /\ loc[c].w[1] = Rat(100, 1)

\* C7: for an input of non-zero linear speed, the vector (xVel, yVel) handed
\* to the transform is a non-negative multiple of (vx, vy): the same heading,
\* clamped or not.
C7_DirectionPreserved ==
    \A c \in Connections : (Active(c) /\ Norm(loc[c].twist) # Zero) =>
        LET l == loc[c]
            vx == l.twist.lx
            vy == l.twist.ly
        IN  /\ Atan2(l.yVel, l.xVel) = Atan2(vy, vx)
            /\ RMul(l.xVel, vy) = RMul(l.yVel, vx)
            /\ RSign(RAdd(RMul(l.xVel, vx), RMul(l.yVel, vy))) > 0

C7_Witness ==
    \E c \in Connections :
        /\ Active(c)
        /\ loc[c].twist.lx = Rat(-12, 10)
        /\ loc[c].twist.ly = Rat(16, 10)
        /\ loc[c].vLinear = One
        /\ loc[c].xVel = Rat(-3, 5)
        /\ loc[c].yVel = Rat(4, 5)

\* the commands the callback has begun, on any thread
Begun == { id \in 1 .. Len(arrived) : \A c \in Connections :
             \A i \in 1 .. Len(inbox[c]) : inbox[c][i] # id }

\* C8: a command is processed to completion before the next command's
\* callback begins: at most one callback is running, it began after every
\* earlier command returned, and on every channel the setpoints appear in the
\* order the commands arrived.
C8_RunToCompletion ==
    /\ Cardinality({ c \in Connections : Active(c) }) <= 1
    /\ \A id \in Begun : \A earlier \in 1 .. (id - 1) : earlier \in Begun
    /\ \A k \in 1 .. 4 : \A i, j \in 1 .. Len(pub[k]) :
         i < j => pub[k][i].id < pub[k][j].id

\* C9: the callback never writes the configuration, and every published
\* setpoint is the one a freshly constructed converter with the same
\* parameters computes for that command, whatever was processed before.
C9_Stateless ==
    /\ node = "spinning" => cfg = ConfigOf(params)
    /\ \A k \in 1 .. 4 : \A i \in 1 .. Len(pub[k]) :
         LET id == pub[k][i].id
         IN  pub[k][i].setpoint = CallbackLocals(ConfigOf(params), id, arrived[id]).w[k - 1]

C9_Witness ==
    /\ Len(pub[4]) >= 2
    /\ arrived[pub[4][1].id] # arrived[pub[4][2].id]
    /\ pub[4][2].setpoint # Zero

\* the spec's rows FL, FR, RL, RR applied to (xVel, yVel, wz)
C10_Raw(k, ab, x, y, z) ==
    CASE k = 0 -> RAdd(RAdd(x, RNeg(y)), RNeg(RMul(ab, z)))
      [] k = 1 -> RAdd(RAdd(x, y), RMul(ab, z))
      [] k = 2 -> RAdd(RAdd(x, y), RNeg(RMul(ab, z)))
      [] k = 3 -> RAdd(RAdd(x, RNeg(y)), RMul(ab, z))

\* C10: for strictly positive geometry, w[k] = -((-1)^k) * (gearboxRatio/2) *
\* (1/wheelRadius) * raw_k with raw_k the dot product of (xVel, yVel, wz) and
\* row k of FL (1,-1,-(a+b)), FR (1,1,a+b), RL (1,1,-(a+b)), RR (1,-1,a+b).
C10_InverseKinematics ==
    \A c \in Connections : (Active(c) /\ ParamsValid(params)) =>
        LET l == loc[c]
            ab == RAdd(params.alpha, params.beta)
            scale == RMul(RDiv(params.gearbox_ratio, Rat(2, 1)),
                          RDiv(One, params.wheel_radius))
        IN  \A k \in 0 .. 3 :
              l.w[k] = RMul(Rat(IF k \in {0, 2} THEN -1 ELSE 1, 1),
                            RMul(scale, C10_Raw(k, ab, l.xVel, l.yVel, l.yawVel)))

C10_Witness ==
    \E c \in Connections :
        /\ Active(c)
        /\ params # DefaultParams
        /\ ParamsValid(params)
        /\ loc[c].xVel # Zero
        /\ loc[c].yVel # Zero
        /\ loc[c].yawVel # Zero
        /\ \A j, k \in 0 .. 3 : j # k => loc[c].w[j] # loc[c].w[k]

===========================================================================
